---------------------------- MODULE Spec2Model ----------------------------
(***************************************************************************)
(* Route optimizers of the DronePath sources.                              *)
(*                                                                         *)
(*   model2.js  RouteOptimizer with the obstacle-offset detour (Policy B)  *)
(*   model1.js  RouteOptimizer with bounded-step subdivision  (Policy A)   *)
(*   part_000   the same subdivision optimizer, and the plain one          *)
(*   part_001   DroneRouteOptimizer, the grid walk to a destination        *)
(*                                                                         *)
(* JavaScript Numbers are modelled by exact real arithmetic.  Every input  *)
(* coordinate, radius and step length is an integer.  The only irrational  *)
(* values the programs build are the inserted points, which have the form  *)
(*      ( x + cx / sqrt(n) ,  y + cy / sqrt(n) )                           *)
(* with integers x, y, cx, cy and n >= 1, so a point is the record         *)
(* [x, y, cx, cy, n, id].  The field id is the object's identity: the      *)
(* number of the Waypoint object for an input waypoint, 0 for an object    *)
(* built by a resolver, -1 for the value undefined.                        *)
(*                                                                         *)
(* The programs compute in IEEE doubles.  The result of a computation that *)
(* rounds differs from the real value by a relative error of some 1e-16,   *)
(* which decides a comparison only when the two real values compared are   *)
(* equal.  Which way the error of one computation goes is a function of    *)
(* its operands that the sources do not determine (it follows from the     *)
(* binary expansions and from the platform's sqrt, pow, atan2, cos, sin),  *)
(* and it differs from one leg to the next: the leg out may round up and   *)
(* the leg back not.  The variable roundedUp is a function on distance     *)
(* computations, each named by its operands: roundedUp[k] is TRUE when the *)
(* double of computation k lies above the real value it stands for, and a  *)
(* computation with the same operands gives the same double every time it  *)
(* is made.  A comparison of a computed distance with a bound it equals as *)
(* a real number is decided as if the distance were greater when           *)
(* roundedUp is TRUE of the computation, and as in real arithmetic when it *)
(* is not.  The domain of roundedUp holds the computations on the legs     *)
(* between input waypoints from the start, and those on the legs a         *)
(* resolver builds from the moment they are put into the route.            *)
(***************************************************************************)
EXTENDS Integers, Sequences, FiniteSets

VARIABLES
    waypoints,           \* this.waypoints: the input sequence of Waypoint objects
    obstacles,           \* this.obstacles: the input sequence of Obstacle objects
    safeDistance,        \* this.safeDistance (model1.js only): [defined, value]
    closeLoop,           \* the caller's loop-closing request; no constructor reads it
    route,               \* optimizeRoute: const route
    unvisitedWaypoints,  \* optimizeRoute: const unvisitedWaypoints
    pc,                  \* position: "constructed", "while", "findSafeRoute",
                         \* "returned", "thrown"
    unvisitedPos,        \* history: the input position held by each slot of unvisitedWaypoints
    pickedPos,           \* history: the input positions selected so far, in order
    calls,               \* history: the resolver calls made so far, [from, to, out, threw]
    frame,               \* model1.js: the locals of the running findSafeRoute, or <<>>;
                         \* the value returned by a call of distanceToLineSegment
    returned,            \* history: the Routes returned by the earlier calls of optimizeRoute
    drone,               \* part_001: the DroneRouteOptimizer instance, or <<>>
    roundedUp            \* whether the double of a distance computation lies above the
                         \* real distance: a function on the keys DistanceKey(o, seg) of
                         \* distanceToLineSegment and StepKey(lineSegment) of the last
                         \* step of a leg of model1.js

vars == <<waypoints, obstacles, safeDistance, closeLoop, route, unvisitedWaypoints,
          pc, unvisitedPos, pickedPos, calls, frame, returned, drone, roundedUp>>

---------------------------------------------------------------------------
(* Bounds of the checked input space *)

MaxWaypoints == 3
MaxObstacles == 2
MaxCoord == 1
MaxRadius == 1

---------------------------------------------------------------------------
(* Exact arithmetic.  A pair <<a, b>> stands for the real a + b * sqrt(n). *)

Sgn(a) == IF a > 0 THEN 1 ELSE IF a < 0 THEN -1 ELSE 0

\* The sign of p1/q1 - p2/q2 for p1, p2 >= 0 and q1, q2 > 0, by comparing the
\* continued fractions, so that no product is formed.
RECURSIVE CmpFrac(_, _, _, _)
CmpFrac(p1, q1, p2, q2) ==
    LET i1 == p1 \div q1
        i2 == p2 \div q2
        r1 == p1 % q1
        r2 == p2 % q2
    IN  IF i1 # i2 THEN Sgn(i1 - i2)
        ELSE IF r1 = 0 /\ r2 = 0 THEN 0
        ELSE IF r1 = 0 THEN -1
        ELSE IF r2 = 0 THEN 1
        ELSE CmpFrac(q2, r2, q1, r1)

SAdd(u, v) == <<u[1] + v[1], u[2] + v[2]>>
SSub(u, v) == <<u[1] - v[1], u[2] - v[2]>>
SMul(u, v, n) == <<u[1] * v[1] + n * u[2] * v[2], u[1] * v[2] + u[2] * v[1]>>
SInt(i) == <<i, 0>>

\* The sign of a + b * sqrt(n): when a and b have opposite signs it is the sign
\* of a^2 - n*b^2 (times the sign of a), i.e. of |a|/|b| - n*|b|/|a|.
SSgn(u, n) ==
    LET a == u[1]
        b == u[2]
        aa == IF a < 0 THEN -a ELSE a
        bb == IF b < 0 THEN -b ELSE b
    IN  IF b = 0 THEN Sgn(a)
        ELSE IF a = 0 THEN Sgn(b)
        ELSE IF Sgn(a) = Sgn(b) THEN Sgn(a)
        ELSE Sgn(a) * CmpFrac(aa, bb, n * bb, aa)

---------------------------------------------------------------------------
(* Points *)

\* new Waypoint(x, y), the object numbered id
Waypoint(x, y, id) == [x |-> x, y |-> y, cx |-> 0, cy |-> 0, n |-> 1, id |-> id]

\* the value undefined (this.waypoints[0] of an empty array)
Undefined == [x |-> 0, y |-> 0, cx |-> 0, cy |-> 0, n |-> 1, id |-> -1]

\* The radicand shared by two points of one leg (an input point fits any).
CommonN(p, q) == IF p.n # 1 THEN p.n ELSE q.n

\* A coordinate times sqrt(n):  (x + cx/sqrt(n)) * sqrt(n) = cx + x*sqrt(n)
ScaledX(p) == <<p.cx, p.x>>
ScaledY(p) == <<p.cy, p.y>>

\* Waypoint.distanceTo: sqrt(dx^2 + dy^2).  The result is the record
\* [sq, n], standing for the real sqrt(sq / n) with sq = a + b*sqrt(n).
distanceTo(p, q) ==
    LET n == CommonN(p, q)
        dx == SSub(ScaledX(p), ScaledX(q))
        dy == SSub(ScaledY(p), ScaledY(q))
    IN  [sq |-> SAdd(SMul(dx, dx, n), SMul(dy, dy, n)), n |-> n]

\* d1 < d2 for two distances over one radicand
DistLess(d1, d2) == SSgn(SSub(d1.sq, d2.sq), d1.n) < 0

\* d <= s and d > s for a distance d and an integer s
DistLeqInt(d, s) == s >= 0 /\ SSgn(SSub(d.sq, SInt(s * s * d.n)), d.n) <= 0
DistGtInt(d, s) == ~DistLeqInt(d, s)

---------------------------------------------------------------------------
(* Obstacle *)

Obstacle(x, y, radius) == [x |-> x, y |-> y, radius |-> radius]

\* { x1, y1, x2, y2 } of model2.js, LineSegment(start, end) of model1.js
LineSegment(start, end) == [start |-> start, end |-> end]

\* Obstacle.distanceToLineSegment: the distance from the centre to the nearest
\* point of the segment, projection parameter clamped to [0, 1].  The result
\* is the record [num, den, n] standing for sqrt(num / (den * n)), den > 0.
\* With w = centre - start and d = end - start: for a segment of length 0 and
\* for t <= 0 it is |w|; for t >= 1 it is |centre - end|; otherwise
\* |w - t*d|^2 at t = (w.d)/|d|^2 is (|w|^2 * |d|^2 - (w.d)^2) / |d|^2.
\* SegmentDistance is the computation for any two points of one radicand,
\* SegmentDistanceInt the same computation for two input points, in integers.
SegmentDistanceInt(o, seg) ==
    LET x1 == seg.start.x
        y1 == seg.start.y
        x2 == seg.end.x
        y2 == seg.end.y
        dx == x2 - x1
        dy == y2 - y1
        lengthSquared == dx * dx + dy * dy
        dot == (o.x - x1) * dx + (o.y - y1) * dy
        w2 == (o.x - x1) * (o.x - x1) + (o.y - y1) * (o.y - y1)
        e2 == (o.x - x2) * (o.x - x2) + (o.y - y2) * (o.y - y2)
    IN  IF lengthSquared = 0 \/ dot <= 0
        THEN [num |-> SInt(w2), den |-> SInt(1), n |-> 1]
        ELSE IF dot >= lengthSquared
            THEN [num |-> SInt(e2), den |-> SInt(1), n |-> 1]
        ELSE [num |-> SInt(w2 * lengthSquared - dot * dot),
              den |-> SInt(lengthSquared), n |-> 1]

SegmentDistance(o, seg) ==
    LET n == CommonN(seg.start, seg.end)
        x1 == ScaledX(seg.start)
        y1 == ScaledY(seg.start)
        x2 == ScaledX(seg.end)
        y2 == ScaledY(seg.end)
        x == <<0, o.x>>
        y == <<0, o.y>>
        dx == SSub(x2, x1)
        dy == SSub(y2, y1)
        wx == SSub(x, x1)
        wy == SSub(y, y1)
        lengthSquared == SAdd(SMul(dx, dx, n), SMul(dy, dy, n))
        dot == SAdd(SMul(wx, dx, n), SMul(wy, dy, n))
        w2 == SAdd(SMul(wx, wx, n), SMul(wy, wy, n))
        ex == SSub(x, x2)
        ey == SSub(y, y2)
        e2 == SAdd(SMul(ex, ex, n), SMul(ey, ey, n))
    IN  IF SSgn(lengthSquared, n) = 0 THEN [num |-> w2, den |-> SInt(1), n |-> n]
        ELSE IF SSgn(dot, n) <= 0 THEN [num |-> w2, den |-> SInt(1), n |-> n]
        ELSE IF SSgn(SSub(dot, lengthSquared), n) >= 0
            THEN [num |-> e2, den |-> SInt(1), n |-> n]
        ELSE [num |-> SSub(SMul(w2, lengthSquared, n), SMul(dot, dot, n)),
              den |-> lengthSquared, n |-> n]

\* Variant: the projection parameter is not clamped (distance to the line)
distanceToLineSegment_Unclamped(o, seg) ==
    LET dx == seg.end.x - seg.start.x
        dy == seg.end.y - seg.start.y
        lengthSquared == dx * dx + dy * dy
        dot == (o.x - seg.start.x) * dx + (o.y - seg.start.y) * dy
        w2 == (o.x - seg.start.x) * (o.x - seg.start.x)
              + (o.y - seg.start.y) * (o.y - seg.start.y)
    IN  IF lengthSquared = 0 THEN [num |-> SInt(w2), den |-> SInt(1), n |-> 1]
        ELSE [num |-> SInt(w2 * lengthSquared - dot * dot),
              den |-> SInt(lengthSquared), n |-> 1]

\* A point with integer coordinates: an input waypoint
IsLattice(p) == p.cx = 0 /\ p.cy = 0

distanceToLineSegment(o, seg) ==
    IF IsLattice(seg.start) /\ IsLattice(seg.end)
    THEN SegmentDistanceInt(o, seg)
    ELSE SegmentDistance(o, seg)

\* distance < r for a result of distanceToLineSegment
SegDistLess(dist, r) ==
    /\ r > 0
    /\ SSgn(SSub(dist.num, SMul(SInt(r * r * dist.n), dist.den, dist.n)), dist.n) < 0

\* distance <= r for a result of distanceToLineSegment (den > 0):
\* num / (den * n) <= r^2  iff  num - r^2 * n * den <= 0
SegDistLeq(dist, r) ==
    /\ r >= 0
    /\ SSgn(SSub(dist.num, SMul(SInt(r * r * dist.n), dist.den, dist.n)), dist.n) <= 0

\* Mutant: the margin of line 100 added to the radius in the test
intersectsWithLineSegment_Margin(o, seg) ==
    SegDistLeq(distanceToLineSegment(o, seg), o.radius + 1)

IsSquare(k) == \E i \in 0..k : i * i = k

RECURSIVE IsPowerOfTwo(_)
IsPowerOfTwo(k) == k = 1 \/ (k > 1 /\ k % 2 = 0 /\ IsPowerOfTwo(k \div 2))

RECURSIVE GCD(_, _)
GCD(a, b) == IF b = 0 THEN a ELSE GCD(b, a % b)

Abs(a) == IF a < 0 THEN -a ELSE a

\* k = 2^i + 2^j for some i, j >= 0 (a power of two from 2 on is 2^i + 2^i)
IsSumOfTwoPowers(k) ==
    \E a, b \in 1..k : a + b = k /\ IsPowerOfTwo(a) /\ IsPowerOfTwo(b)

\* The least d for which (m / d) * d, computed in doubles, differs from m for
\* some integer 0 < m < d: (15 / 22) * 22 is 14.999999999999998
LeastInexactLength == 22

\* Whether tClamped * (x2 - x1) is sure to be the integer m it stands for on
\* a segment of integer length d parallel to an axis, 0 < m <= d, where
\* tClamped is the double nearest to m / d: it is when d is below
\* LeastInexactLength, when d is 2^i + 2^j (the product of the rounded
\* quotient by such a d rounds to m), and when m / d is a binary fraction.
\* For the other m and d the product is m or a neighbour of m.
RoundsBack(m, d) ==
    \/ d < LeastInexactLength
    \/ IsSumOfTwoPowers(d)
    \/ IsPowerOfTwo(d \div GCD(m, d))

\* The sign of (centre - start).(end - start) for any two points of one
\* radicand
DotSign(o, seg) ==
    LET n == CommonN(seg.start, seg.end)
        dx == SSub(ScaledX(seg.end), ScaledX(seg.start))
        dy == SSub(ScaledY(seg.end), ScaledY(seg.start))
        wx == SSub(<<0, o.x>>, ScaledX(seg.start))
        wy == SSub(<<0, o.y>>, ScaledY(seg.start))
    IN  SSgn(SAdd(SMul(wx, dx, n), SMul(wy, dy, n)), n)

\* Whether the double that distanceToLineSegment returns carries a rounding
\* error.  The coordinates of an inserted point are rounded, and with them
\* the distance to a segment that has one for an end, unless the segment
\* starts at an input point and the centre is that point (the dot product is
\* 0 * dx + 0 * dy) or projects before it (t is negative whatever its
\* rounding): then tClamped is 0 and the result is the distance between two
\* integer points.  Between input points there is no error
\*   - when the centre projects onto the start of the segment or before it:
\*     tClamped is 0 and every operand is an integer;
\*   - when it projects beyond the end: tClamped is 1;
\*   - when the segment is parallel to an axis and the centre lies off its
\*     line: lineSegmentLength is an integer, the coordinate across the
\*     segment is not touched, and an error of the coordinate along it is
\*     lost in the sum of the two squares;
\*   - when the segment is parallel to an axis and tClamped * (x2 - x1)
\*     rounds back to the integer it stands for (RoundsBack);
\*   - when lineSegmentLength is an integer and t a binary fraction: t,
\*     nearestX and nearestY are computed exactly.
\* Otherwise t = dot / lineSegmentLength ** 2 is rounded (Math.sqrt(2) ** 2 is
\* 2.0000000000000004), and so is all that is computed from it.
RoundingOccurs(o, seg) ==
    IF ~(IsLattice(seg.start) /\ IsLattice(seg.end))
    THEN ~(/\ IsLattice(seg.start)
           /\ \/ o.x = seg.start.x /\ o.y = seg.start.y
              \/ DotSign(o, seg) < 0)
    ELSE LET dx == seg.end.x - seg.start.x
             dy == seg.end.y - seg.start.y
             lengthSquared == dx * dx + dy * dy
             dot == (o.x - seg.start.x) * dx + (o.y - seg.start.y) * dy
         IN  /\ 0 < dot
             /\ dot <= lengthSquared
             /\ ~(/\ IsSquare(lengthSquared)
                  /\ IsPowerOfTwo(lengthSquared \div GCD(dot, lengthSquared)))
             /\ (dx = 0 \/ dy = 0) =>
                    /\ (o.x - seg.start.x) * dy = (o.y - seg.start.y) * dx
                    /\ ~RoundsBack(dot \div (Abs(dx) + Abs(dy)), Abs(dx) + Abs(dy))

\* The operands of this.distanceToLineSegment(lineSegment): the centre and the
\* two ends of the segment
DistanceKey(o, seg) ==
    <<o.x, o.y,
      seg.start.x, seg.start.y, seg.start.cx, seg.start.cy, seg.start.n,
      seg.end.x, seg.end.y, seg.end.cx, seg.end.cy, seg.end.n>>

\* The real distance from the centre to the segment is the radius
AtRadius(o, seg) ==
    /\ SegDistLeq(distanceToLineSegment(o, seg), o.radius)
    /\ ~SegDistLess(distanceToLineSegment(o, seg), o.radius)

\* The computations of distanceToLineSegment between the obstacles obs and the
\* legs between two of the waypoints ws whose rounding can decide the
\* comparison of line 21: the result carries a rounding error and the real
\* distance is the radius.
RoundedDistances(ws, obs) ==
    {DistanceKey(obs[t[1]], LineSegment(ws[t[2]], ws[t[3]])) :
        t \in {u \in (1..Len(obs)) \X (1..Len(ws)) \X (1..Len(ws)) :
                  /\ RoundingOccurs(obs[u[1]], LineSegment(ws[u[2]], ws[u[3]]))
                  /\ AtRadius(obs[u[1]], LineSegment(ws[u[2]], ws[u[3]]))}}

\* The computations of distanceToLineSegment between the obstacles obs and the
\* legs of the sequence of points path whose rounding can decide the
\* comparison of line 21
RoundedDistancesAlong(path, obs) ==
    {DistanceKey(obs[t[1]], LineSegment(path[t[2]], path[t[2] + 1])) :
        t \in {u \in (1..Len(obs)) \X (1..(Len(path) - 1)) :
                  /\ RoundingOccurs(obs[u[1]], LineSegment(path[u[2]], path[u[2] + 1]))
                  /\ AtRadius(obs[u[1]], LineSegment(path[u[2]], path[u[2] + 1]))}}

\* The functions that roundedUp can be once the legs of path are in the
\* route: what it is, and either value for each computation on a leg of path
\* that it does not hold yet
RoundedWith(path) ==
    LET new == RoundedDistancesAlong(path, obstacles) \ DOMAIN roundedUp
    IN  {[k \in (DOMAIN roundedUp) \cup new |->
             IF k \in DOMAIN roundedUp THEN roundedUp[k] ELSE k \in up] :
         up \in SUBSET new}

\* The roundings of a set of computations, either way each
Roundings(keys) == {[k \in keys |-> k \in up] : up \in SUBSET keys}

\* The double of computation k lies above the real distance
IsRoundedUp(k) == k \in DOMAIN roundedUp /\ roundedUp[k]

\* Obstacle.intersectsWithLineSegment: distance <= this.radius.  A rounded
\* distance that lies above its real value is <= the radius exactly when the
\* real distance is < the radius.
intersectsWithLineSegment(o, seg) ==
    IF IsRoundedUp(DistanceKey(o, seg))
    THEN SegDistLess(distanceToLineSegment(o, seg), o.radius)
    ELSE SegDistLeq(distanceToLineSegment(o, seg), o.radius)

---------------------------------------------------------------------------
(* model2.js: RouteOptimizer with the obstacle-offset detour *)

\* Mutant: the trigger of findSafeRoute tests against radius + 1 while the
\* search of findAlternativeSafePath tests against the radius
SomeObstacleIntersects_Margin(obs, seg) ==
    \E i \in 1..Len(obs) : SegDistLeq(distanceToLineSegment(obs[i], seg), obs[i].radius + 1)

\* Array.prototype.some over this.obstacles (findSafeRoute, line 80)
SomeObstacleIntersects(obs, seg) ==
    \E i \in 1..Len(obs) : intersectsWithLineSegment(obs[i], seg)

\* Array.prototype.find over this.obstacles (findAlternativeSafePath, lines
\* 90-93): the index of the first obstacle that intersects, 0 for undefined
FindObstacle(obs, seg) ==
    LET hits == {i \in 1..Len(obs) : intersectsWithLineSegment(obs[i], seg)}
    IN  IF hits = {} THEN 0 ELSE CHOOSE i \in hits : \A j \in hits : i <= j

\* The direction of Math.atan2(dy, dx) as the shortest integer vector of that
\* direction; Math.atan2(0, 0) is 0, the direction of (1, 0).
Bearing(start, end) ==
    LET dx == end.x - start.x
        dy == end.y - start.y
        g == GCD(IF dx < 0 THEN -dx ELSE dx, IF dy < 0 THEN -dy ELSE dy)
    IN  IF dx = 0 /\ dy = 0 THEN <<1, 0>> ELSE <<dx \div g, dy \div g>>

\* start + radius * (cos(angle + PI/4), sin(angle + PI/4)):  with (dx, dy) the
\* bearing and n = 2 * (dx^2 + dy^2),
\*   cos(angle + PI/4) = (dx - dy) / sqrt(n),  sin(angle + PI/4) = (dx + dy) / sqrt(n)
intermediateWaypoint1(start, end, radius) ==
    LET d == Bearing(start, end)
    IN  [x |-> start.x, y |-> start.y,
         cx |-> radius * (d[1] - d[2]), cy |-> radius * (d[1] + d[2]),
         n |-> 2 * (d[1] * d[1] + d[2] * d[2]), id |-> 0]

\* end - radius * (cos(angle - PI/4), sin(angle - PI/4)):
\*   cos(angle - PI/4) = (dx + dy) / sqrt(n),  sin(angle - PI/4) = (dy - dx) / sqrt(n)
intermediateWaypoint2(start, end, radius) ==
    LET d == Bearing(start, end)
    IN  [x |-> end.x, y |-> end.y,
         cx |-> -(radius * (d[1] + d[2])), cy |-> -(radius * (d[2] - d[1])),
         n |-> 2 * (d[1] * d[1] + d[2] * d[2]), id |-> 0]

\* The margin of "obstacle.radius + 1" (line 100)
ExtraDistance == 1

\* Mutant: the detour returned without its end waypoint
findAlternativeSafePath_NoEnd(startWaypoint, endWaypoint) ==
    LET lineSegment == LineSegment(startWaypoint, endWaypoint)
        found == FindObstacle(obstacles, lineSegment)
        radius == obstacles[found].radius + ExtraDistance
    IN  IF found = 0 THEN [threw |-> TRUE, path |-> <<>>]
        ELSE [threw |-> FALSE,
              path |-> <<startWaypoint,
                         intermediateWaypoint1(startWaypoint, endWaypoint, radius),
                         intermediateWaypoint2(startWaypoint, endWaypoint, radius)>>]

\* RouteOptimizer.findAlternativeSafePath; [threw |-> TRUE] is the thrown
\* Error("No obstacle found").  Both arguments are input waypoints.
findAlternativeSafePath(startWaypoint, endWaypoint) ==
    LET lineSegment == LineSegment(startWaypoint, endWaypoint)
        found == FindObstacle(obstacles, lineSegment)
        radius == obstacles[found].radius + ExtraDistance
    IN  IF found = 0 THEN [threw |-> TRUE, path |-> <<>>]
        ELSE [threw |-> FALSE,
              path |-> <<startWaypoint,
                         intermediateWaypoint1(startWaypoint, endWaypoint, radius),
                         intermediateWaypoint2(startWaypoint, endWaypoint, radius),
                         endWaypoint>>]

\* RouteOptimizer.findSafeRoute
findSafeRoute(startWaypoint, endWaypoint) ==
    LET lineSegment == LineSegment(startWaypoint, endWaypoint)
    IN  IF SomeObstacleIntersects(obstacles, lineSegment)
        THEN findAlternativeSafePath(startWaypoint, endWaypoint)
        ELSE [threw |-> FALSE, path |-> <<startWaypoint, endWaypoint>>]

\* unvisitedWaypoints.reduce(..., unvisitedWaypoints[0]): the left fold that
\* replaces the minimum only by a strictly nearer waypoint
RECURSIVE reduceMin(_, _, _)
reduceMin(ws, minWaypoint, currentWaypoint) ==
    IF ws = <<>> THEN minWaypoint
    ELSE reduceMin(Tail(ws),
                   IF DistLess(distanceTo(Head(ws), currentWaypoint),
                               distanceTo(minWaypoint, currentWaypoint))
                   THEN Head(ws) ELSE minWaypoint,
                   currentWaypoint)

\* Mutant: the fold replaces the minimum by an equally near waypoint too (<=)
RECURSIVE reduceMinLeq(_, _, _)
reduceMinLeq(ws, minWaypoint, currentWaypoint) ==
    IF ws = <<>> THEN minWaypoint
    ELSE reduceMinLeq(Tail(ws),
                      IF DistLess(distanceTo(minWaypoint, currentWaypoint),
                                  distanceTo(Head(ws), currentWaypoint))
                      THEN minWaypoint ELSE Head(ws),
                      currentWaypoint)

closestWaypoint_Leq(unvisited, currentWaypoint) ==
    reduceMinLeq(unvisited, unvisited[1], currentWaypoint)

closestWaypoint(unvisited, currentWaypoint) ==
    reduceMin(unvisited, unvisited[1], currentWaypoint)

\* Array.prototype.indexOf: the first slot holding the same object, 1-based;
\* 0 stands for JavaScript's -1
indexOf(arr, w) ==
    LET same == {i \in 1..Len(arr) : arr[i] = w}
    IN  IF same = {} THEN 0 ELSE CHOOSE i \in same : \A j \in same : i <= j

\* Mutant: arr.splice(index), which removes every element from index on
splice_ToEnd(arr, index) ==
    IF index = 0 THEN SubSeq(arr, 1, Len(arr) - 1)
    ELSE SubSeq(arr, 1, index - 1)

\* arr.splice(index, 1) with a 1-based index; splice(-1, 1) removes the last
splice(arr, index) ==
    IF index = 0 THEN SubSeq(arr, 1, Len(arr) - 1)
    ELSE SubSeq(arr, 1, index - 1) \o SubSeq(arr, index + 1, Len(arr))

\* Variant: unvisitedWaypoints is this.waypoints itself, so the splice of
\* line 65 removes the waypoint from the input array
waypointsAfterSplice_Shared(input, index) ==
    splice(input, index + 1)

\* The contents of this.waypoints after unvisitedWaypoints.splice(index, 1)
\* (line 65): unvisitedWaypoints is the new array built by
\* this.waypoints.slice(1) (line 51), so the splice leaves this.waypoints as
\* it is
waypointsAfterSplice(input, index) ==
    input

\* optimizeRoute returns the route array and nothing else: no leg carries a
\* warning annotation
UnresolvedHazards == {}

---------------------------------------------------------------------------
(* Inputs *)

\* The lattice points of the triangle x >= 0, y >= 0, x + y <= MaxCoord
Points == {p \in (0..MaxCoord) \X (0..MaxCoord) : p[1] + p[2] <= MaxCoord}

WaypointObjects(n) == {Waypoint(p[1], p[2], id) : p \in Points, id \in 1..n}

\* Arrays of n Waypoint objects; an object may fill several slots.  Objects
\* are numbered by the first slot they fill.
WaypointArrays(n) ==
    {w \in [1..n -> WaypointObjects(n)] :
        \A i \in 1..n : w[i].id <= i /\ w[w[i].id] = w[i]}

\* Obstacles with a radius from Radii; the constructor accepts any radius
ObstacleObjects(Radii) == {Obstacle(p[1], p[2], r) : p \in Points, r \in Radii}

ObstacleArrays(m, Radii) == [1..m -> ObstacleObjects(Radii)]

---------------------------------------------------------------------------
(* model2.js: the run of new RouteOptimizer(waypoints, obstacles).optimizeRoute() *)

\* The value undefined of a constructor argument that was not passed
NoDistance == [defined |-> FALSE, value |-> 0]

Start ==
    /\ route = <<>>
    /\ unvisitedWaypoints = <<>>
    /\ pc = "constructed"
    /\ unvisitedPos = <<>>
    /\ pickedPos = <<>>
    /\ calls = <<>>
    /\ frame = <<>>
    /\ returned = <<>>
    /\ drone = <<>>

\* Tours: any array of up to MaxWaypoints waypoints, the empty one included,
\* with no obstacle or a single one of any radius from -1 on.
Init ==
    /\ waypoints \in UNION {WaypointArrays(n) : n \in 0..MaxWaypoints}
    /\ obstacles \in ObstacleArrays(0, {}) \cup ObstacleArrays(1, (-1)..MaxRadius)
    /\ closeLoop = TRUE
    /\ safeDistance = NoDistance
    /\ roundedUp \in Roundings(RoundedDistances(waypoints, obstacles))
    /\ Start

\* Legs: two Waypoint objects (a leg and the leg back) among up to
\* MaxObstacles different obstacles of radius 0..MaxRadius, in any order.
InitLeg ==
    /\ waypoints \in {w \in WaypointArrays(2) : w[1].id # w[2].id}
    /\ obstacles \in {o \in UNION {ObstacleArrays(m, 0..MaxRadius) : m \in 0..MaxObstacles} :
                         \A i, j \in 1..Len(o) : o[i] = o[j] => i = j}
    /\ closeLoop = TRUE
    /\ safeDistance = NoDistance
    /\ roundedUp \in Roundings(RoundedDistances(waypoints, obstacles))
    /\ Start

\* Loop requests: any array of up to MaxWaypoints waypoints, no obstacle, and
\* the caller's loop-closing request either way.
InitLoop ==
    /\ waypoints \in UNION {WaypointArrays(n) : n \in 0..MaxWaypoints}
    /\ obstacles = <<>>
    /\ closeLoop \in BOOLEAN
    /\ safeDistance = NoDistance
    /\ roundedUp \in Roundings(RoundedDistances(waypoints, obstacles))
    /\ Start

\* Variant: the route is kept in the instance (as this.route) and the next
\* call goes on from the route the last call left
EnterOptimizeRoute_KeptRoute ==
    /\ pc = "constructed"
    /\ route' = IF returned # <<>> THEN returned[Len(returned)]
                ELSE <<IF waypoints = <<>> THEN Undefined ELSE waypoints[1]>>
    /\ unvisitedWaypoints' = SubSeq(waypoints, 2, Len(waypoints))
    /\ unvisitedPos' = [i \in 1..(Len(waypoints) - 1) |-> i + 1]
    /\ pc' = "while"
    /\ UNCHANGED <<returned, drone, roundedUp, waypoints, obstacles, safeDistance, closeLoop,
                   pickedPos, calls, frame>>

\* lines 50-51
EnterOptimizeRoute ==
    /\ pc = "constructed"
    /\ route' = <<IF waypoints = <<>> THEN Undefined ELSE waypoints[1]>>
    /\ unvisitedWaypoints' = SubSeq(waypoints, 2, Len(waypoints))
    /\ unvisitedPos' = [i \in 1..(Len(waypoints) - 1) |-> i + 1]
    /\ pc' = "while"
    /\ UNCHANGED <<returned, drone, roundedUp, waypoints, obstacles, safeDistance,
                   closeLoop, pickedPos, calls, frame>>

\* Variant: the whole output of findSafeRoute is pushed, its first point included
SelectClosest_PushAll ==
    /\ pc = "while"
    /\ unvisitedWaypoints # <<>>
    /\ LET currentWaypoint == route[Len(route)]
           closest == closestWaypoint(unvisitedWaypoints, currentWaypoint)
           safeRoute == findSafeRoute(currentWaypoint, closest)
           index == indexOf(unvisitedWaypoints, closest)
       IN  /\ calls' = Append(calls, [from |-> currentWaypoint, to |-> closest,
                                      out |-> safeRoute.path, threw |-> safeRoute.threw])
           /\ IF safeRoute.threw
              THEN /\ pc' = "thrown"
                   /\ UNCHANGED <<route, unvisitedWaypoints, unvisitedPos, pickedPos,
                                  waypoints, roundedUp>>
              ELSE /\ route' = route \o safeRoute.path
                   /\ roundedUp' \in RoundedWith(safeRoute.path)
                   /\ unvisitedWaypoints' = splice(unvisitedWaypoints, index)
                   /\ waypoints' = waypointsAfterSplice(waypoints, index)
                   /\ unvisitedPos' = splice(unvisitedPos, index)
                   /\ pickedPos' = Append(pickedPos, unvisitedPos[index])
                   /\ pc' = "while"
    /\ UNCHANGED <<returned, drone, obstacles, safeDistance, closeLoop, frame>>

\* lines 53-66: one iteration of the while loop
SelectClosest ==
    /\ pc = "while"
    /\ unvisitedWaypoints # <<>>
    /\ LET currentWaypoint == route[Len(route)]
           closest == closestWaypoint(unvisitedWaypoints, currentWaypoint)
           safeRoute == findSafeRoute(currentWaypoint, closest)
           index == indexOf(unvisitedWaypoints, closest)
       IN  /\ calls' = Append(calls, [from |-> currentWaypoint, to |-> closest,
                                      out |-> safeRoute.path, threw |-> safeRoute.threw])
           /\ IF safeRoute.threw
              THEN /\ pc' = "thrown"
                   /\ UNCHANGED <<route, unvisitedWaypoints, unvisitedPos, pickedPos,
                                  waypoints, roundedUp>>
              ELSE /\ route' = route \o Tail(safeRoute.path)
                   /\ roundedUp' \in RoundedWith(safeRoute.path)
                   /\ unvisitedWaypoints' = splice(unvisitedWaypoints, index)
                   /\ waypoints' = waypointsAfterSplice(waypoints, index)
                   /\ unvisitedPos' = splice(unvisitedPos, index)
                   /\ pickedPos' = Append(pickedPos, unvisitedPos[index])
                   /\ pc' = "while"
    /\ UNCHANGED <<returned, drone, obstacles, safeDistance, closeLoop, frame>>

\* Variant: the return to the start is made whatever the route's length
ReturnToStart_Always ==
    /\ pc = "while"
    /\ unvisitedWaypoints = <<>>
    /\ LET safeRoute == findSafeRoute(route[Len(route)], route[1])
       IN  /\ calls' = Append(calls, [from |-> route[Len(route)], to |-> route[1],
                                      out |-> safeRoute.path,
                                      threw |-> safeRoute.threw])
           /\ IF safeRoute.threw
              THEN pc' = "thrown" /\ UNCHANGED <<route, roundedUp>>
              ELSE /\ pc' = "returned"
                   /\ route' = route \o Tail(safeRoute.path)
                   /\ roundedUp' \in RoundedWith(safeRoute.path)
    /\ UNCHANGED <<returned, drone, waypoints, obstacles, safeDistance, closeLoop,
                   unvisitedWaypoints, unvisitedPos, pickedPos, frame>>

\* lines 68-74: the return to the start and the return statement
ReturnToStart ==
    /\ pc = "while"
    /\ unvisitedWaypoints = <<>>
    /\ IF Len(route) > 1
       THEN LET safeRoute == findSafeRoute(route[Len(route)], route[1])
            IN  /\ calls' = Append(calls, [from |-> route[Len(route)], to |-> route[1],
                                           out |-> safeRoute.path,
                                           threw |-> safeRoute.threw])
                /\ IF safeRoute.threw
                   THEN pc' = "thrown" /\ UNCHANGED <<route, roundedUp>>
                   ELSE /\ pc' = "returned"
                        /\ route' = route \o Tail(safeRoute.path)
                        /\ roundedUp' \in RoundedWith(safeRoute.path)
       ELSE pc' = "returned" /\ UNCHANGED <<route, calls, roundedUp>>
    /\ UNCHANGED <<returned, drone, waypoints, obstacles, safeDistance, closeLoop,
                   unvisitedWaypoints, unvisitedPos, pickedPos, frame>>

Next == EnterOptimizeRoute \/ SelectClosest \/ ReturnToStart

Spec == Init /\ [][Next]_vars

SpecLeg == InitLeg /\ [][Next]_vars

SpecLoop == InitLoop /\ [][Next]_vars

MaxCoordT == 8

PointsT == (0..MaxCoordT) \X (0..MaxCoordT)

\* A leg along an axis of the least length for which the nearest point of
\* the leg is not always computed exactly, and a centre on it for which it
\* is not
LongLegEnd == <<LeastInexactLength, 0>>
LongLegCentre == <<15, 0>>

\* Legs past one obstacle: a leg from (0, 0) to any point of the grid or to
\* the end of the long leg and the leg back, one obstacle of radius
\* 0..MaxRadius anywhere on the grid or on the long leg, and the rounding of
\* each of the two legs either way.
InitTangent ==
    /\ waypoints \in {<<Waypoint(0, 0, 1), Waypoint(p[1], p[2], 2)>> :
                          p \in PointsT \cup {LongLegEnd}}
    /\ obstacles \in {<<Obstacle(c[1], c[2], r)>> :
                          c \in PointsT \cup {LongLegCentre}, r \in 0..MaxRadius}
    /\ closeLoop = TRUE
    /\ safeDistance = [defined |-> FALSE, value |-> 0]
    /\ roundedUp \in Roundings(RoundedDistances(waypoints, obstacles))
    /\ Start

SpecTangent == InitTangent /\ [][Next]_vars

\* Two calls on one instance: tours of up to MaxWaypoints Waypoint objects
\* with no obstacle or one of radius 0..MaxRadius.
InitAgain ==
    /\ waypoints \in {w \in UNION {WaypointArrays(n) : n \in 0..MaxWaypoints} :
                         \A i \in 1..Len(w) : w[i].id = i}
    /\ obstacles \in ObstacleArrays(0, {}) \cup ObstacleArrays(1, 0..MaxRadius)
    /\ closeLoop = TRUE
    /\ safeDistance = NoDistance
    /\ roundedUp \in Roundings(RoundedDistances(waypoints, obstacles))
    /\ Start

\* line 74 and the caller: optimizeRoute has returned its route array to the
\* caller, who keeps it; route and unvisitedWaypoints are locals of the call
\* (const, lines 50-51) and are gone with it.  The caller then calls
\* optimizeRoute on the same instance once more.
OptimizeRouteAgain ==
    /\ pc = "returned"
    /\ returned = <<>>
    /\ returned' = Append(returned, route)
    /\ route' = <<>>
    /\ unvisitedWaypoints' = <<>>
    /\ unvisitedPos' = <<>>
    /\ pickedPos' = <<>>
    /\ calls' = <<>>
    /\ pc' = "constructed"
    /\ UNCHANGED <<drone, roundedUp, waypoints, obstacles, safeDistance, closeLoop, frame>>

---------------------------------------------------------------------------
(* model1.js: RouteOptimizer with bounded-step subdivision *)

MaxCoordA == 2
MaxStep == 2
MaxSubdivisions == 12

\* A distance that equals the positive integer s as a real number
DistEqInt(d, s) == s > 0 /\ SSgn(SSub(d.sq, SInt(s * s * d.n)), d.n) = 0

\* Variant: a step length that was not passed counts as 0
ExceedsSafeDistance_Zero(d, lineSegment) ==
    DistGtInt(d, IF safeDistance.defined THEN safeDistance.value ELSE 0)

\* The operands of the subdivision of a leg: the ends of the lineSegment that
\* findSafeRoute was called with (the step length is the same all the run)
StepKey(lineSegment) ==
    <<lineSegment.start.x, lineSegment.start.y, lineSegment.end.x, lineSegment.end.y>>

\* The square root of a square number
Root(k) == CHOOSE i \in 0..k : i * i = k

\* The legs between two of the waypoints ws on which the rounding can decide
\* the comparison of line 97: legs off the axes whose length is the step
\* length sd twice or more times over, so that the distance from the last
\* but one inserted point to the end is the step length as a real number.
RoundedSteps(ws, sd) ==
    {StepKey(LineSegment(ws[t[1]], ws[t[2]])) :
        t \in {u \in (1..Len(ws)) \X (1..Len(ws)) :
                  LET dx == ws[u[2]].x - ws[u[1]].x
                      dy == ws[u[2]].y - ws[u[1]].y
                      lengthSquared == dx * dx + dy * dy
                  IN  /\ sd.defined
                      /\ sd.value > 0
                      /\ dx # 0
                      /\ dy # 0
                      /\ IsSquare(lengthSquared)
                      /\ Root(lengthSquared) % sd.value = 0
                      /\ Root(lengthSquared) > sd.value}}

\* currentWaypoint.distanceTo(nextWaypoint) > this.safeDistance (line 97) in
\* the call findSafeRoute(lineSegment); a comparison with undefined is false.
\* The distance from a point that findIntermediateWaypoint built off the axes
\* (d.n # 1) is computed from rounded coordinates: where it equals the step
\* length as a real number the comparison goes the way the rounding of this
\* leg went.
ExceedsSafeDistance(d, lineSegment) ==
    /\ safeDistance.defined
    /\ \/ DistGtInt(d, safeDistance.value)
       \/ /\ d.n # 1
          /\ DistEqInt(d, safeDistance.value)
          /\ IsRoundedUp(StepKey(lineSegment))

Shortest(v) ==
    LET g == GCD(IF v[1] < 0 THEN -v[1] ELSE v[1], IF v[2] < 0 THEN -v[2] ELSE v[2])
    IN  IF g = 0 THEN <<1, 0>> ELSE <<v[1] \div g, v[2] \div g>>

\* RouteOptimizer.findIntermediateWaypoint:
\*     start + distance * (cos(angle), sin(angle)),  angle = atan2(end - start).
\* end is an input waypoint and start is either an input waypoint or a point
\* this function built on the way to end, so end - start is a real multiple of
\* an integer vector e: of end's offset from the leg's first point when that
\* is not zero, else of the offset back to it, else (atan2(0, 0) = 0) of
\* (1, 0).  With sigma the sign of (end - start).e the unit vector of the angle
\* is sigma * e / sqrt(e.e), and the result is start + distance * sigma * e / sqrt(e.e).
findIntermediateWaypoint(start, end) ==
    LET distance == safeDistance.value
        dx == end.x - start.x
        dy == end.y - start.y
        e == IF dx # 0 \/ dy # 0 THEN Shortest(<<dx, dy>>)
             ELSE Shortest(<<-start.cx, -start.cy>>)
        n == e[1] * e[1] + e[2] * e[2]
        along == SAdd(SMul(<<-start.cx, dx>>, SInt(e[1]), n),
                      SMul(<<-start.cy, dy>>, SInt(e[2]), n))
        sigma == IF start.cx = 0 /\ start.cy = 0 THEN 1 ELSE SSgn(along, n)
        u == IF sigma = 0 THEN <<1, 0>> ELSE <<sigma * e[1], sigma * e[2]>>
    IN  IF sigma = 0
        THEN [x |-> start.x + distance, y |-> start.y,
              cx |-> start.cx, cy |-> start.cy, n |-> start.n, id |-> 0]
        ELSE [x |-> start.x, y |-> start.y,
              cx |-> start.cx + distance * u[1], cy |-> start.cy + distance * u[2],
              n |-> n, id |-> 0]

\* RouteOptimizer.isSafeRoute (lines 118-125)
isSafeRoute(lineSegment) ==
    \A j \in 1..Len(obstacles) : ~intersectsWithLineSegment(obstacles[j], lineSegment)

\* The legs that were given to isSafeRoute: the method has no call site
TestedLegs == {}

PointsA == {p \in (0..MaxCoordA) \X (0..MaxCoordA) : p[1] + p[2] <= MaxCoordA}

WaypointObjectsA(n) == {Waypoint(p[1], p[2], id) : p \in PointsA, id \in 1..n}

WaypointArraysA(n) ==
    {w \in [1..n -> WaypointObjectsA(n)] :
        \A i \in 1..n : w[i].id <= i /\ w[w[i].id] = w[i]}

StepLengths == {NoDistance} \cup {[defined |-> TRUE, value |-> v] : v \in (-1)..MaxStep}

\* One or two waypoints (a leg and the leg back) with no obstacle or one, and
\* any step length from -1 on, or none.
InitA ==
    /\ waypoints \in WaypointArraysA(1) \cup WaypointArraysA(2)
    /\ obstacles \in ObstacleArrays(0, {}) \cup ObstacleArrays(1, 0..MaxRadius)
    /\ closeLoop = TRUE
    /\ safeDistance \in StepLengths
    /\ roundedUp \in Roundings(RoundedSteps(waypoints, safeDistance))
    /\ Start

\* lines 62-63
EnterOptimizeRouteA ==
    /\ pc = "constructed"
    /\ route' = <<IF waypoints = <<>> THEN Undefined ELSE waypoints[1]>>
    /\ unvisitedWaypoints' = SubSeq(waypoints, 2, Len(waypoints))
    /\ unvisitedPos' = [i \in 1..(Len(waypoints) - 1) |-> i + 1]
    /\ pc' = "while"
    /\ UNCHANGED <<returned, drone, roundedUp, waypoints, obstacles, safeDistance,
                   closeLoop, pickedPos, calls, frame>>

\* lines 65-75 and 92-95: a while iteration up to its call of findSafeRoute
SelectClosestA ==
    /\ pc = "while"
    /\ unvisitedWaypoints # <<>>
    /\ LET currentWaypoint == route[Len(route)]
           closest == closestWaypoint(unvisitedWaypoints, currentWaypoint)
       IN  frame' = [safeRoute |-> <<currentWaypoint>>,
                     currentWaypoint |-> currentWaypoint,
                     nextWaypoint |-> closest,
                     closing |-> FALSE]
    /\ pc' = "findSafeRoute"
    /\ UNCHANGED <<returned, drone, roundedUp, waypoints, obstacles, safeDistance, closeLoop, route,
                   unvisitedWaypoints, unvisitedPos, pickedPos, calls>>

\* lines 97-102: one iteration of the while loop of findSafeRoute
SubdivideA ==
    /\ pc = "findSafeRoute"
    /\ ExceedsSafeDistance(distanceTo(frame.currentWaypoint, frame.nextWaypoint),
                           LineSegment(frame.safeRoute[1], frame.nextWaypoint))
    /\ Len(frame.safeRoute) <= MaxSubdivisions
    /\ LET intermediateWaypoint ==
               findIntermediateWaypoint(frame.currentWaypoint, frame.nextWaypoint)
       IN  frame' = [frame EXCEPT !.safeRoute = Append(@, intermediateWaypoint),
                                  !.currentWaypoint = intermediateWaypoint]
    /\ UNCHANGED <<returned, drone, roundedUp, waypoints, obstacles, safeDistance, closeLoop, route,
                   unvisitedWaypoints, unvisitedPos, pickedPos, calls, pc>>

\* lines 104-105, then back in optimizeRoute lines 77-78 or 85-88
ReturnSafeRouteA ==
    /\ pc = "findSafeRoute"
    /\ ~ExceedsSafeDistance(distanceTo(frame.currentWaypoint, frame.nextWaypoint),
                            LineSegment(frame.safeRoute[1], frame.nextWaypoint))
    /\ LET safeRoute == Append(frame.safeRoute, frame.nextWaypoint)
           index == indexOf(unvisitedWaypoints, frame.nextWaypoint)
       IN  /\ calls' = Append(calls, [from |-> frame.safeRoute[1], to |-> frame.nextWaypoint,
                                      out |-> safeRoute, threw |-> FALSE])
           /\ route' = route \o Tail(safeRoute)
           /\ roundedUp' \in RoundedWith(safeRoute)
           /\ IF frame.closing
              THEN /\ pc' = "returned"
                   /\ UNCHANGED <<unvisitedWaypoints, unvisitedPos, pickedPos, waypoints>>
              ELSE /\ unvisitedWaypoints' = splice(unvisitedWaypoints, index)
                   /\ waypoints' = waypointsAfterSplice(waypoints, index)
                   /\ unvisitedPos' = splice(unvisitedPos, index)
                   /\ pickedPos' = Append(pickedPos, unvisitedPos[index])
                   /\ pc' = "while"
    /\ frame' = <<>>
    /\ UNCHANGED <<returned, drone, obstacles, safeDistance, closeLoop>>

\* lines 82-84 and 92-95, or line 88
ReturnToStartA ==
    /\ pc = "while"
    /\ unvisitedWaypoints = <<>>
    /\ IF Len(route) > 1
       THEN /\ frame' = [safeRoute |-> <<route[Len(route)]>>,
                         currentWaypoint |-> route[Len(route)],
                         nextWaypoint |-> route[1],
                         closing |-> TRUE]
            /\ pc' = "findSafeRoute"
       ELSE /\ pc' = "returned"
            /\ UNCHANGED frame
    /\ UNCHANGED <<returned, drone, roundedUp, waypoints, obstacles, safeDistance, closeLoop, route,
                   unvisitedWaypoints, unvisitedPos, pickedPos, calls>>

MaxCoordS == 8

\* Subdivided legs: the leg from (0, 0) to any point of the grid and the leg
\* back, no obstacle, a positive step length, and the rounding of each of
\* the two legs either way.
InitStep ==
    /\ waypoints \in {<<Waypoint(0, 0, 1), Waypoint(p[1], p[2], 2)>> :
                         p \in (0..MaxCoordS) \X (0..MaxCoordS)}
    /\ obstacles = <<>>
    /\ closeLoop = TRUE
    /\ safeDistance \in {[defined |-> TRUE, value |-> v] : v \in 1..MaxStep}
    /\ roundedUp \in Roundings(RoundedSteps(waypoints, safeDistance))
    /\ Start

NextA ==
    \/ EnterOptimizeRouteA
    \/ SelectClosestA
    \/ SubdivideA
    \/ ReturnSafeRouteA
    \/ ReturnToStartA

SpecA == InitA /\ [][NextA]_vars

SpecStep == InitStep /\ [][NextA]_vars

\* Tours with and without a step length: up to MaxWaypoints Waypoint objects
\* on the grid, no obstacle, and the constructor's third argument either
\* omitted or MaxStep.
InitOmitted ==
    /\ waypoints \in {w \in UNION {WaypointArraysA(n) : n \in 1..MaxWaypoints} :
                         \A i \in 1..Len(w) : w[i].id = i}
    /\ obstacles = <<>>
    /\ closeLoop = TRUE
    /\ safeDistance \in {NoDistance, [defined |-> TRUE, value |-> MaxStep]}
    /\ roundedUp \in Roundings(RoundedSteps(waypoints, safeDistance))
    /\ Start

SpecOmitted == InitOmitted /\ [][NextA]_vars

---------------------------------------------------------------------------
(* part_000, lines 663-692: the plain nearest-neighbour RouteOptimizer *)

\* lines 672-683: the while loop, from a route and the unvisited waypoints
RECURSIVE PlainVisit(_, _)
PlainVisit(visited, unvisited) ==
    IF unvisited = <<>> THEN visited
    ELSE LET currentWaypoint == visited[Len(visited)]
             closest == closestWaypoint(unvisited, currentWaypoint)
         IN  PlainVisit(Append(visited, closest),
                        splice(unvisited, indexOf(unvisited, closest)))

\* lines 668-691: optimizeRoute of the plain optimizer on the array ws
PlainRoute(ws) ==
    LET visited == PlainVisit(<<IF ws = <<>> THEN Undefined ELSE ws[1]>>,
                              SubSeq(ws, 2, Len(ws)))
    IN  IF Len(visited) > 1 THEN Append(visited, visited[1]) ELSE visited

---------------------------------------------------------------------------
(* Properties of model2.js *)

Returned == pc = "returned"

RouteLeg(i) == LineSegment(route[i], route[i + 1])

\* The obstacles that intersectsWithLineSegment classifies as intersecting the
\* leg (from, to)
Intersecting(from, to) ==
    {j \in 1..Len(obstacles) :
        intersectsWithLineSegment(obstacles[j], LineSegment(from, to))}

\* The obstacles whose real distance to the leg (from, to) is at most their
\* radius
Hits(from, to) ==
    {j \in 1..Len(obstacles) :
        SegDistLeq(distanceToLineSegment(obstacles[j], LineSegment(from, to)),
                   obstacles[j].radius)}

\* The obstacles whose distance d to the leg satisfies radius < d <= radius + margin
InMarginBand(from, to) ==
    {j \in 1..Len(obstacles) :
        LET d == distanceToLineSegment(obstacles[j], LineSegment(from, to))
        IN  /\ ~SegDistLeq(d, obstacles[j].radius)
            /\ SegDistLeq(d, obstacles[j].radius + ExtraDistance)}

Min(S) == CHOOSE i \in S : \A j \in S : i <= j

\* The input waypoints in the order the scan selected them, origin first
SelectionOrder ==
    <<waypoints[1]>> \o [i \in 1..Len(pickedPos) |-> waypoints[pickedPos[i]]]

IsInputWaypoint(p) == p.id >= 1

\* The vector p - q times sqrt(n), as a pair of surds
ScaledDiff(p, q) == <<SSub(ScaledX(p), ScaledX(q)), SSub(ScaledY(p), ScaledY(q))>>

\* v (a vector times sqrt(n)) has length r and lies at 45 degrees to the
\* integer direction d: counter-clockwise of it for turn = 1, clockwise for
\* turn = -1.  |v|^2 = r^2 * n;  d.v > 0;  d x v = turn * (d.v).
AtOffset(v, d, r, turn, n) ==
    LET dotp == SAdd(SMul(SInt(d[1]), v[1], n), SMul(SInt(d[2]), v[2], n))
        crossp == SSub(SMul(SInt(d[1]), v[2], n), SMul(SInt(d[2]), v[1], n))
        len2 == SAdd(SMul(v[1], v[1], n), SMul(v[2], v[2], n))
    IN  /\ SSgn(SSub(len2, SInt(r * r * n)), n) = 0
        /\ SSgn(dotp, n) > 0
        /\ SSgn(SSub(crossp, SMul(SInt(turn), dotp, n)), n) = 0

\* C1: in the returned Route every leg keeps a distance greater than the
\* radius from every obstacle centre, unless the leg is flagged as an
\* UnresolvedHazard.
C1_SegmentSafety ==
    Returned =>
        \A i \in 1..(Len(route) - 1) :
            \/ i \in UnresolvedHazards
            \/ \A j \in 1..Len(obstacles) :
                   ~SegDistLeq(distanceToLineSegment(obstacles[j], RouteLeg(i)),
                               obstacles[j].radius)

\* C2: for an input of at least one waypoint, every input waypoint is in the
\* returned Route, and the input waypoints of the Route are, in order, those
\* the scan selected (origin first, and the origin again when the loop was
\* closed); every other Route point was inserted by the resolver.
C2_Completeness ==
    (Returned /\ Len(waypoints) >= 1) =>
        /\ \A k \in 1..Len(waypoints) : \E i \in 1..Len(route) : route[i] = waypoints[k]
        /\ route[1] = waypoints[1]
        /\ SelectSeq(route, IsInputWaypoint)
             = SelectionOrder \o (IF Len(waypoints) >= 2 THEN <<waypoints[1]>> ELSE <<>>)
        /\ \A i \in 1..Len(route) :
               \/ IsInputWaypoint(route[i])
               \/ \E c \in 1..Len(calls) : \E k \in 2..(Len(calls[c].out) - 1) :
                      calls[c].out[k] = route[i]

C2_Witness ==
    /\ Returned
    /\ Len(waypoints) = 3
    /\ \E i \in 1..Len(route) : ~IsInputWaypoint(route[i])

\* C3: for n >= 1 waypoints the tour builder returns after exactly n-1
\* selection steps and one resolver call per step (plus the closing one);
\* at every moment the input positions 2..n are split between the selected
\* and the unvisited ones with no position in both or twice.
C3_SelectionSteps ==
    (pc \in {"while", "returned"} /\ Len(waypoints) >= 1) =>
        LET n == Len(waypoints)
            picked == {pickedPos[i] : i \in 1..Len(pickedPos)}
            waiting == {unvisitedPos[i] : i \in 1..Len(unvisitedPos)}
        IN  /\ Len(unvisitedWaypoints) = Len(unvisitedPos)
            /\ \A i \in 1..Len(unvisitedPos) : unvisitedWaypoints[i] = waypoints[unvisitedPos[i]]
            /\ Len(pickedPos) + Len(unvisitedPos) = n - 1
            /\ Cardinality(picked) = Len(pickedPos)
            /\ Cardinality(waiting) = Len(unvisitedPos)
            /\ picked \cap waiting = {}
            /\ picked \cup waiting = 2..n
            /\ Returned =>
                   /\ Len(pickedPos) = n - 1
                   /\ Len(calls) = (n - 1) + (IF n >= 2 THEN 1 ELSE 0)

C3_Witness ==
    /\ Returned
    /\ Len(waypoints) = 3
    /\ waypoints[2] = waypoints[3]
    /\ pickedPos = <<2, 3>>

\* C4: every selection step picks an Unvisited waypoint no other Unvisited
\* waypoint is nearer to the current one than, and of the equally near ones
\* the first in input order.
C4_NearestFirst ==
    [][(pc = "while" /\ unvisitedWaypoints # <<>> /\ pc' = "while") =>
          LET cur == route[Len(route)]
              pos == pickedPos'[Len(pickedPos')]
              chosen == distanceTo(waypoints[pos], cur)
          IN  /\ \E k \in 1..Len(unvisitedPos) : unvisitedPos[k] = pos
              /\ route'[Len(route')] = waypoints[pos]
              /\ \A k \in 1..Len(unvisitedPos) :
                     LET other == distanceTo(waypoints[unvisitedPos[k]], cur)
                     IN  /\ ~DistLess(other, chosen)
                         /\ ~DistLess(chosen, other) => pos <= unvisitedPos[k]
      ]_vars

\* a first selection made between two equally near waypoints at different places
C4_Witness ==
    /\ pc = "while"
    /\ Len(waypoints) = 3
    /\ pickedPos = <<2>>
    /\ waypoints[2].x # waypoints[3].x
    /\ ~DistLess(distanceTo(waypoints[2], waypoints[1]), distanceTo(waypoints[3], waypoints[1]))
    /\ ~DistLess(distanceTo(waypoints[3], waypoints[1]), distanceTo(waypoints[2], waypoints[1]))

\* C5: the resolver returns <<from, to>> when no obstacle intersects the
\* leg (no centre lies within its radius of the leg); otherwise it returns
\* <<from, offset1, offset2, to>> where, with r the radius plus the margin of
\* the first obstacle in input order that intersects the leg, offset1 lies at
\* distance r from `from` at bearing + 45 degrees and `to` lies at distance r
\* from offset2 at bearing - 45 degrees.
C5_ResolverOutput ==
    \A c \in 1..Len(calls) :
        LET from == calls[c].from
            to == calls[c].to
            out == calls[c].out
            hits == Hits(from, to)
        IN  IF hits = {} THEN out = <<from, to>>
            ELSE LET r == obstacles[Min(hits)].radius + ExtraDistance
                     d == Bearing(from, to)
                 IN  /\ Len(out) = 4
                     /\ out[1] = from
                     /\ out[4] = to
                     /\ AtOffset(ScaledDiff(out[2], from), d, r, 1, out[2].n)
                     /\ AtOffset(ScaledDiff(to, out[3]), d, r, -1, out[3].n)

\* C6: the "No obstacle found" error is never thrown.
C6_NoObstacleFoundUnreachable ==
    /\ pc # "thrown"
    /\ \A c \in 1..Len(calls) : ~calls[c].threw

\* findAlternativeSafePath has been entered and has returned a detour
C6_Witness ==
    \E c \in 1..Len(calls) : Len(calls[c].out) = 4

\* C10 as stated: a leg whose distance d to some obstacle centre satisfies
\* radius < d <= radius + margin is given a detour.
C10_MarginBeforeTest ==
    \A c \in 1..Len(calls) :
        InMarginBand(calls[c].from, calls[c].to) # {} => Len(calls[c].out) = 4

\* C10 as amended: the test compares the distance with the bare radius.  A leg
\* that no obstacle reaches with d <= radius, whether or not it has obstacles
\* with radius < d <= radius + margin, is returned unchanged; a detour is
\* given exactly when the test holds of the leg for some obstacle, and the
\* margin enters only the offset radius of that detour.
C10_MarginOnlyInOffset ==
    \A c \in 1..Len(calls) :
        LET from == calls[c].from
            to == calls[c].to
            out == calls[c].out
            found == Intersecting(from, to)
        IN  /\ Hits(from, to) = {} => out = <<from, to>>
            /\ Len(out) = 4 <=> found # {}
            /\ found # {} =>
                   SSgn(SSub(distanceTo(out[2], from).sq,
                             SInt((obstacles[Min(found)].radius + ExtraDistance)
                                  * (obstacles[Min(found)].radius + ExtraDistance)
                                  * out[2].n)),
                        out[2].n) = 0

\* a leg inside the margin band of an obstacle, returned unchanged
C10_Witness ==
    \E c \in 1..Len(calls) :
        /\ InMarginBand(calls[c].from, calls[c].to) # {}
        /\ calls[c].out = <<calls[c].from, calls[c].to>>

\* The last waypoint the scan selected, the origin when it selected none
LastVisited ==
    IF pickedPos = <<>> THEN waypoints[1] ELSE waypoints[pickedPos[Len(pickedPos)]]

\* C7: the closing leg is resolved and appended only when loop-closing is
\* requested: then, with two waypoints or more, the Route ends at the origin,
\* and without the request no closing leg is resolved and the Route ends at
\* the last visited waypoint.
C7_ClosingOnlyOnRequest ==
    (Returned /\ Len(waypoints) >= 1) =>
        IF closeLoop
        THEN Len(waypoints) >= 2 =>
                 /\ route[Len(route)] = waypoints[1]
                 /\ Len(calls) = Len(pickedPos) + 1
        ELSE /\ route[Len(route)] = LastVisited
             /\ Len(calls) = Len(pickedPos)

\* Inputs the interface rules out
InvalidInput ==
    \/ waypoints = <<>>
    \/ \E j \in 1..Len(obstacles) : obstacles[j].radius < 0
    \/ safeDistance.defined /\ safeDistance.value <= 0

\* C8: on an invalid input the run fails instead of returning a Route.
C8_InvalidInputFailsFast ==
    InvalidInput => ~Returned

\* C11: no step of optimizeRoute changes the optimizer's waypoint sequence
\* (same elements, same order) or its obstacle sequence (same obstacles, same
\* order, same centre and radius); the Route and the unvisited list are built
\* and changed apart from them.
C11_InputsNotMutated ==
    [][/\ waypoints' = waypoints
       /\ obstacles' = obstacles]_vars

\* a run that has selected and spliced out two waypoints and returned
C11_Witness ==
    /\ Returned
    /\ Len(waypoints) = 3
    /\ pickedPos = <<3, 2>>
    /\ unvisitedWaypoints = <<>>
    /\ Len(route) >= 4

\* The obstacles whose distance to the leg (from, to) is exactly their radius:
\* num / (den * n) = radius^2
Touching(from, to) ==
    {j \in 1..Len(obstacles) :
        LET d == distanceToLineSegment(obstacles[j], LineSegment(from, to))
            r == obstacles[j].radius
        IN  /\ r >= 0
            /\ SSgn(SSub(d.num, SMul(SInt(r * r * d.n), d.den, d.n)), d.n) = 0}

\* C13: a leg whose closest approach to an obstacle centre is exactly the
\* obstacle's radius is classified as intersecting by that obstacle, and the
\* tour builder's call of findSafeRoute for it returns a detour.
C13_BoundaryIntersects ==
    \A c \in 1..Len(calls) :
        \A j \in Touching(calls[c].from, calls[c].to) :
            /\ intersectsWithLineSegment(obstacles[j],
                                         LineSegment(calls[c].from, calls[c].to))
            /\ Len(calls[c].out) = 4

\* C15: for an input of exactly one waypoint optimizeRoute returns the
\* single-point Route <<origin>>: no selection is made, findSafeRoute is never
\* called and no return to the origin is appended, whatever the obstacles.
C15_SingleWaypoint ==
    (Len(waypoints) = 1 /\ pc # "constructed") =>
        /\ route = <<waypoints[1]>>
        /\ calls = <<>>
        /\ pickedPos = <<>>
        /\ pc \in {"while", "returned"}

\* a single waypoint with an obstacle lying on it has been returned
C15_Witness ==
    /\ Returned
    /\ Len(waypoints) = 1
    /\ Len(route) = 1
    /\ \E j \in 1..Len(obstacles) :
           /\ obstacles[j].x = waypoints[1].x
           /\ obstacles[j].y = waypoints[1].y
           /\ obstacles[j].radius = MaxRadius

\* C17: at every call of findSafeRoute made by optimizeRoute, `from` is the
\* last point of the route built so far and is an input waypoint, never an
\* inserted point; the output begins with `from` and ends with `to`, the route
\* grows by the output without its first point, and so ends at the waypoint
\* just selected, which is the current waypoint of the next selection.
C17_CallsFromLastInputWaypoint ==
    [][Len(calls') = Len(calls) + 1 =>
          LET call == calls'[Len(calls')]
          IN  /\ call.from = route[Len(route)]
              /\ IsInputWaypoint(call.from)
              /\ IsInputWaypoint(call.to)
              /\ ~call.threw
              /\ call.out[1] = call.from
              /\ call.out[Len(call.out)] = call.to
              /\ route' = route \o Tail(call.out)
              /\ route'[Len(route')] = call.to
              /\ pc' = "while" => call.to = waypoints[pickedPos'[Len(pickedPos')]]
      ]_vars

\* a selection made from a waypoint that was reached by a detour
C17_Witness ==
    /\ Len(calls) = 2
    /\ Len(calls[1].out) = 4
    /\ calls[1].from.id # calls[1].to.id
    /\ calls[2].from = calls[1].to
    /\ ~IsInputWaypoint(route[Len(route) - Len(calls[2].out)])
    /\ Len(pickedPos) = 2

---------------------------------------------------------------------------
(* Obstacle.distanceToLineSegment on its own *)

MaxCoordD == 3

PointsD == (0..MaxCoordD) \X (0..MaxCoordD)

\* One centre and one segment, both ends anywhere on the grid (the same point
\* twice included).
InitDist ==
    /\ waypoints \in {<<Waypoint(p[1], p[2], 1), Waypoint(q[1], q[2], 2)>> :
                         p \in PointsD, q \in PointsD}
    /\ obstacles \in {<<Obstacle(c[1], c[2], 0)>> : c \in PointsD}
    /\ closeLoop = TRUE
    /\ safeDistance = NoDistance
    /\ roundedUp \in Roundings({})
    /\ Start

\* obstacles[0].distanceToLineSegment(new LineSegment(waypoints[0], waypoints[1]))
CallDistanceToLineSegment ==
    /\ pc = "constructed"
    /\ frame' = [distance |-> distanceToLineSegment(obstacles[1],
                                  LineSegment(waypoints[1], waypoints[2]))]
    /\ pc' = "returned"
    /\ UNCHANGED <<returned, drone, roundedUp, waypoints, obstacles, safeDistance,
                   closeLoop, route, unvisitedWaypoints, unvisitedPos, pickedPos, calls>>

NextDist == CallDistanceToLineSegment

SpecDist == InitDist /\ [][NextDist]_vars

\* The squared distance between two integer points
SquaredGap(px, py, qx, qy) == (px - qx) * (px - qx) + (py - qy) * (py - qy)

\* C14: distanceToLineSegment returns the distance from the centre to the
\* nearest point of the finite segment: no point start + (k/a)*(end - start),
\* k in 0..a with a = |end - start|^2, is nearer than the result and one of
\* them is at the result; at or before the start it is the distance to the
\* start, at or beyond the end the distance to the end; for start = end it is
\* the distance to the start, with no division by zero.
C14_NearestPointOfSegment ==
    Returned =>
        LET o == obstacles[1]
            s == waypoints[1]
            e == waypoints[2]
            a == SquaredGap(e.x, e.y, s.x, s.y)
            b == (o.x - s.x) * (e.x - s.x) + (o.y - s.y) * (e.y - s.y)
            c == SquaredGap(o.x, o.y, s.x, s.y)
            num == frame.distance.num[1]
            den == frame.distance.den[1]
            \* a * |o - (s + (k/a)(e - s))|^2
            At(k) == k * k - 2 * b * k + a * c
        IN  /\ den > 0
            /\ frame.distance.num[2] = 0 /\ frame.distance.den[2] = 0
            /\ frame.distance.n = 1
            /\ num >= 0
            /\ IF a = 0 THEN num = c * den
               ELSE /\ \A k \in 0..a : num * a <= At(k) * den
                    /\ \E k \in 0..a : num * a = At(k) * den
                    /\ b <= 0 => num = c * den
                    /\ b >= a => num = SquaredGap(o.x, o.y, e.x, e.y) * den

\* a centre beyond the end of a segment and off its line: the result is the
\* distance to the end point, which is more than the distance to the line
C14_Witness ==
    /\ Returned
    /\ frame # <<>>
    /\ LET o == obstacles[1]
           s == waypoints[1]
           e == waypoints[2]
           a == SquaredGap(e.x, e.y, s.x, s.y)
           b == (o.x - s.x) * (e.x - s.x) + (o.y - s.y) * (e.y - s.y)
           c == SquaredGap(o.x, o.y, s.x, s.y)
       IN  /\ a > 0
           /\ b > a
           /\ a * c - b * b > 0
           /\ frame.distance.num[1] = SquaredGap(o.x, o.y, e.x, e.y) * frame.distance.den[1]

---------------------------------------------------------------------------
(* Properties of model1.js *)

\* C9: every sub-leg the subdivision puts into the Route has been given to
\* the intersection test, so none intersects an obstacle undetected.
C9_SubLegsTested ==
    Returned =>
        \A i \in 1..(Len(route) - 1) :
            /\ i \in TestedLegs \/ isSafeRoute(RouteLeg(i))

\* With no step length findSafeRoute inserts nothing, and the returned Route
\* is the one of the plain optimizer on the same waypoints
NothingInserted ==
    /\ pc = "findSafeRoute" => Len(frame.safeRoute) = 1
    /\ \A c \in 1..Len(calls) : calls[c].out = <<calls[c].from, calls[c].to>>
    /\ Returned => route = PlainRoute(waypoints)

\* The Route is the n input waypoints in the order of selection followed by
\* the origin
GreedyOrderThenOrigin ==
    /\ Len(route) = Len(waypoints) + 1
    /\ SubSeq(route, 1, Len(waypoints)) = SelectionOrder
    /\ route[Len(route)] = waypoints[1]

\* C18 as stated: without a step length no intermediate point is inserted on
\* any leg and the returned Route is, point for point, the Route of the plain
\* nearest-neighbour optimizer: the n input waypoints in greedy order followed
\* by the origin.
C18_SameAsPlainThenOrigin ==
    ~safeDistance.defined =>
        /\ NothingInserted
        /\ Returned => GreedyOrderThenOrigin

\* C18 as amended: without a step length no intermediate point is inserted
\* and the returned Route is that of the plain optimizer; for two waypoints or
\* more it is the n input waypoints in greedy order followed by the origin,
\* and for a single waypoint it is the origin alone.
C18_SameAsPlain ==
    ~safeDistance.defined =>
        /\ NothingInserted
        /\ (Returned /\ Len(waypoints) >= 2) => GreedyOrderThenOrigin
        /\ (Returned /\ Len(waypoints) = 1) => route = <<waypoints[1]>>

\* a tour of three waypoints returned without a step length, the third
\* waypoint visited before the second
C18_Witness ==
    /\ Returned
    /\ ~safeDistance.defined
    /\ Len(waypoints) = 3
    /\ pickedPos = <<3, 2>>
    /\ Len(route) = 4
    /\ route = PlainRoute(waypoints)
    /\ DistGtInt(distanceTo(waypoints[1], waypoints[2]), 1)

\* The vector q - p times sqrt(n) for two points of one leg
LegVector(p, q) == ScaledDiff(q, p)

\* C16: for a positive step length s the call of findSafeRoute for a leg
\* (from, to) of length d returns a sequence that starts at from, ends at to
\* and has exactly ceil(d/s) - 1 points between them (none when d <= s), each
\* on the straight line from `from` to `to` at distance s from the one before
\* it, so that every sub-leg has a length of at most s.
C16_BoundedStepOutput ==
    \A c \in 1..Len(calls) :
        (safeDistance.defined /\ safeDistance.value > 0) =>
            LET from == calls[c].from
                to == calls[c].to
                out == calls[c].out
                s == safeDistance.value
                k == Len(out) - 2
                d == distanceTo(from, to)
            IN  /\ k >= 0
                /\ out[1] = from
                /\ out[Len(out)] = to
                /\ IF DistLeqInt(d, s) THEN k = 0
                   ELSE /\ DistGtInt(d, k * s)
                        /\ DistLeqInt(d, (k + 1) * s)
                /\ \A i \in 2..(k + 1) :
                       LET n == out[i].n
                           v == LegVector(from, out[i])
                           w == LegVector(from, to)
                       IN  /\ DistEqInt(distanceTo(out[i - 1], out[i]), s)
                           /\ SSgn(SSub(SMul(v[1], w[2], n), SMul(v[2], w[1], n)), n) = 0
                /\ \A i \in 1..(k + 1) : DistLeqInt(distanceTo(out[i], out[i + 1]), s)


---------------------------------------------------------------------------
(* part_001: DroneRouteOptimizer *)

MaxHops == 3
MaxRoute == 100

\* The literals 10 of isObstructed (line 17), of the scan window of
\* findNextPoint (lines 29-30) and of the loop test of optimizeRoute (line 54)
ObstacleClearance == 10
ScanRange == 10
ArrivalDistance == 10

\* { x, y }, and the value null
Point(x, y) == [x |-> x, y |-> y, null |-> FALSE]
Null == [x |-> 0, y |-> 0, null |-> TRUE]

\* calculateDistance: sqrt(dx^2 + dy^2) of integers, kept as its square (the
\* square root of an integer is below, at or above 10 as the integer is below,
\* at or above 100, and two of them compare as the integers do)
calculateDistance(point1, point2) ==
    (point2.x - point1.x) * (point2.x - point1.x)
        + (point2.y - point1.y) * (point2.y - point1.y)

\* Variant: only the first obstacle is tested
isObstructed_FirstOnly(d, point) ==
    /\ d.obstacles # <<>>
    /\ calculateDistance(point, d.obstacles[1]) < ObstacleClearance * ObstacleClearance

\* isObstructed
isObstructed(d, point) ==
    \E j \in 1..Len(d.obstacles) :
        calculateDistance(point, d.obstacles[j]) < ObstacleClearance * ObstacleClearance

\* this.route.some(p => p.x === point.x && p.y === point.y)
InRoute(d, point) ==
    \E k \in 1..Len(d.route) : d.route[k].x = point.x /\ d.route[k].y = point.y

\* The one element of a singleton.  Value({e(v) : v \in {f}}) is e with v
\* bound to the value of f, computed once.
Value(S) == CHOOSE v \in S : TRUE

\* The y of the scan window of column x that pass the test of line 34
AdmissibleY(d, x) ==
    LET last == d.route[Len(d.route)]
    IN  {y \in (last.y - ScanRange)..(last.y + ScanRange) :
            ~(InRoute(d, Point(x, y)) \/ isObstructed(d, Point(x, y)))}

\* The first of the y that are nearest to the destination
FirstNearestY(d, x, ys) ==
    CHOOSE y \in ys :
        \A z \in ys :
            \/ calculateDistance(Point(x, y), d.destination)
                   < calculateDistance(Point(x, z), d.destination)
            \/ /\ calculateDistance(Point(x, y), d.destination)
                      = calculateDistance(Point(x, z), d.destination)
               /\ y <= z

\* The inner loop of findNextPoint (lines 30-46) for one x, entered with the
\* nearest point so far (best.minDistance is Infinity while best.nextPoint is
\* null).  y runs upwards and a point replaces nextPoint only when it is
\* strictly nearer to the destination, so the loop leaves the first of the
\* nearest admissible points of the column if that is strictly nearer than
\* the point it was entered with, and else that point.
ScanY(d, x, best) ==
    Value({IF ys = {} THEN best
           ELSE Value({IF best.nextPoint.null
                          \/ calculateDistance(Point(x, y), d.destination) < best.minDistance
                       THEN [nextPoint |-> Point(x, y),
                             minDistance |-> calculateDistance(Point(x, y), d.destination)]
                       ELSE best :
                       y \in {FirstNearestY(d, x, ys)}}) :
           ys \in {AdmissibleY(d, x)}})

\* The outer loop of findNextPoint (lines 29-47) from x on
RECURSIVE ScanX(_, _, _)
ScanX(d, x, best) ==
    IF x > d.route[Len(d.route)].x + ScanRange THEN best
    ELSE Value({ScanX(d, x + 1, column) : column \in {ScanY(d, x, best)}})

\* findNextPoint
findNextPoint(d) ==
    ScanX(d, d.route[Len(d.route)].x - ScanRange,
          [nextPoint |-> Null, minDistance |-> 0]).nextPoint

\* new DroneRouteOptimizer(start, destination, obstacles)
DroneRouteOptimizer(start, destination, obs) ==
    [start |-> start, destination |-> destination, obstacles |-> obs, route |-> <<start>>]

\* Obstacle sites on the circle of radius 10 around the start: the start is
\* not obstructed by them, and the four together obstruct every other point of
\* its scan window
TrapSites == <<Point(8, 6), Point(-8, 6), Point(8, -6), Point(-8, -6)>>

\* The sites of a sequence that a mask keeps, in order
RECURSIVE Kept(_, _)
Kept(sites, mask) ==
    IF sites = <<>> THEN <<>>
    ELSE (IF Head(mask) THEN <<Head(sites)>> ELSE <<>>) \o Kept(Tail(sites), Tail(mask))

\* The example of lines 67-71, and the flights from (0, 0) to a destination
\* up to MaxHops windows away past any of the trap sites.
InitDrone ==
    /\ drone \in
         {DroneRouteOptimizer(Point(0, 0), Point(100, 100), <<Point(50, 50), Point(30, 30)>>)}
         \cup {DroneRouteOptimizer(Point(0, 0), Point(ScanRange * i, ScanRange * j),
                                   Kept(TrapSites, mask)) :
                  i \in 0..MaxHops, j \in 0..MaxHops,
                  mask \in [1..Len(TrapSites) -> BOOLEAN]}
    /\ waypoints = <<>>
    /\ obstacles = <<>>
    /\ closeLoop = TRUE
    /\ safeDistance = NoDistance
    /\ roundedUp \in Roundings({})
    /\ route = <<>>
    /\ unvisitedWaypoints = <<>>
    /\ pc = "constructed"
    /\ unvisitedPos = <<>>
    /\ pickedPos = <<>>
    /\ calls = <<>>
    /\ frame = <<>>
    /\ returned = <<>>

\* line 72: optimizer.optimizeRoute() is called
DroneEnterOptimizeRoute ==
    /\ pc = "constructed"
    /\ pc' = "while"
    /\ UNCHANGED <<drone, returned, roundedUp, waypoints, obstacles, safeDistance,
                   closeLoop, route, unvisitedWaypoints, unvisitedPos, pickedPos,
                   calls, frame>>

\* lines 54-56: the loop test is true; findNextPoint and the push
DronePushNextPoint ==
    /\ pc = "while"
    /\ ~drone.route[Len(drone.route)].null
    /\ calculateDistance(drone.route[Len(drone.route)], drone.destination)
           > ArrivalDistance * ArrivalDistance
    /\ Len(drone.route) < MaxRoute
    /\ \E nextPoint \in {findNextPoint(drone)} :
           drone' = [drone EXCEPT !.route = Append(@, nextPoint)]
    /\ UNCHANGED <<pc, returned, roundedUp, waypoints, obstacles, safeDistance,
                   closeLoop, route, unvisitedWaypoints, unvisitedPos, pickedPos,
                   calls, frame>>

\* line 54: the loop test is false and optimizeRoute returns
DroneReturn ==
    /\ pc = "while"
    /\ ~drone.route[Len(drone.route)].null
    /\ calculateDistance(drone.route[Len(drone.route)], drone.destination)
           <= ArrivalDistance * ArrivalDistance
    /\ pc' = "returned"
    /\ UNCHANGED <<drone, returned, roundedUp, waypoints, obstacles, safeDistance,
                   closeLoop, route, unvisitedWaypoints, unvisitedPos, pickedPos,
                   calls, frame>>

\* line 54 after a push of null: calculateDistance reads point1.x of null and
\* the TypeError leaves optimizeRoute
DroneThrow ==
    /\ pc = "while"
    /\ drone.route[Len(drone.route)].null
    /\ pc' = "thrown"
    /\ UNCHANGED <<drone, returned, roundedUp, waypoints, obstacles, safeDistance,
                   closeLoop, route, unvisitedWaypoints, unvisitedPos, pickedPos,
                   calls, frame>>

NextDrone ==
    \/ DroneEnterOptimizeRoute
    \/ DronePushNextPoint
    \/ DroneReturn
    \/ DroneThrow

SpecDrone == InitDrone /\ [][NextDrone]_vars

\* The run goes on while a step of it is possible
SpecDroneFair == SpecDrone /\ WF_vars(NextDrone)

---------------------------------------------------------------------------
(* Two calls of optimizeRoute on one instance *)

\* lines 72-73 and the caller: optimizeRoute has ended (by its return or by
\* the TypeError of line 11) and the caller has read the Route with getRoute.
\* The caller then calls optimizeRoute on the same instance once more:
\* this.route is what the first call left (only the constructor assigns it,
\* line 6).
DroneOptimizeRouteAgain ==
    /\ pc \in {"returned", "thrown"}
    /\ returned = <<>>
    /\ returned' = Append(returned, drone.route)
    /\ pc' = "constructed"
    /\ UNCHANGED <<drone, roundedUp, waypoints, obstacles, safeDistance, closeLoop,
                   route, unvisitedWaypoints, unvisitedPos, pickedPos, calls, frame>>

\* The instance is a DroneRouteOptimizer of part_001
IsDrone == drone # <<>>

\* A RouteOptimizer of model2.js or a DroneRouteOptimizer of part_001, as
\* constructed
InitSecondCall == InitAgain \/ InitDrone

\* The steps of optimizeRoute and the call after its return on a
\* RouteOptimizer, and those on a DroneRouteOptimizer
NextSecondCall ==
    \/ ~IsDrone /\ EnterOptimizeRoute
    \/ ~IsDrone /\ SelectClosest
    \/ ~IsDrone /\ ReturnToStart
    \/ ~IsDrone /\ OptimizeRouteAgain
    \/ IsDrone /\ DroneEnterOptimizeRoute
    \/ IsDrone /\ DronePushNextPoint
    \/ IsDrone /\ DroneReturn
    \/ IsDrone /\ DroneThrow
    \/ IsDrone /\ DroneOptimizeRouteAgain

SpecSecondCall == InitSecondCall /\ [][NextSecondCall]_vars

\* model2.js lines 53-74: the loop of optimizeRoute and the return to the
\* start, from the route r and the waypoints not yet visited
RECURSIVE Visit(_, _)
Visit(r, unvisited) ==
    IF unvisited = <<>>
    THEN IF Len(r) > 1
         THEN r \o Tail(findSafeRoute(r[Len(r)], r[1]).path)
         ELSE r
    ELSE LET currentWaypoint == r[Len(r)]
             closest == closestWaypoint(unvisited, currentWaypoint)
         IN  Visit(r \o Tail(findSafeRoute(currentWaypoint, closest).path),
                   splice(unvisited, indexOf(unvisited, closest)))

\* model2.js: new RouteOptimizer(ws, obstacles).optimizeRoute()
RouteOfNewOptimizer(ws) ==
    Visit(<<IF ws = <<>> THEN Undefined ELSE ws[1]>>, SubSeq(ws, 2, Len(ws)))

\* part_001 lines 54-57: the loop of optimizeRoute on the instance d, up to
\* its return or its TypeError
RECURSIVE DroneLoop(_)
DroneLoop(d) ==
    IF \/ d.route[Len(d.route)].null
       \/ calculateDistance(d.route[Len(d.route)], d.destination)
              <= ArrivalDistance * ArrivalDistance
       \/ Len(d.route) >= MaxRoute
    THEN d.route
    ELSE DroneLoop([d EXCEPT !.route = Append(@, findNextPoint(d))])

\* part_001: the Route that getRoute gives after optimizeRoute on
\* new DroneRouteOptimizer(start, destination, obs)
RouteOfNewDrone(start, destination, obs) ==
    DroneLoop(DroneRouteOptimizer(start, destination, obs))

\* The second call of optimizeRoute on the instance has ended
SecondCallEnded == pc \in {"returned", "thrown"} /\ returned # <<>>

\* C12: a second call of optimizeRoute on the same instance, with the inputs
\* as the first call found them, gives a Route with the same points in the
\* same order as the first and ends as the first did (by a return or by the
\* same error); and what the first call left in the instance does not
\* influence the second: the second gives the Route that a call on a newly
\* constructed instance with the same inputs gives.  This for the
\* RouteOptimizer of model2.js, whose route is a local of the call, and for
\* the DroneRouteOptimizer of part_001, which keeps its route in this.route.
C12_SameRouteAgain ==
    SecondCallEnded =>
        IF IsDrone
        THEN /\ drone.route = returned[1]
             /\ pc = "thrown" <=> returned[1][Len(returned[1])].null
             /\ drone.route = RouteOfNewDrone(drone.start, drone.destination,
                                              drone.obstacles)
        ELSE /\ pc = "returned"
             /\ route = returned[1]
             /\ route = RouteOfNewOptimizer(waypoints)

\* a second call on a DroneRouteOptimizer has returned, on the route of
\* several points around an obstacle that the first call left in this.route
C12_Witness ==
    /\ IsDrone
    /\ pc = "returned"
    /\ returned # <<>>
    /\ Len(drone.obstacles) >= 1
    /\ Len(drone.route) >= 4
    /\ \E x \in (-ScanRange)..ScanRange, y \in (-ScanRange)..ScanRange :
           /\ isObstructed(drone, Point(x, y))
           /\ calculateDistance(Point(x, y), drone.destination)
                  < calculateDistance(drone.route[2], drone.destination)

\* C19: at every moment of optimizeRoute every route point other than the
\* start lies within 10 grid units in x and in y of its predecessor, is at a
\* distance of at least 10 from every obstacle, and differs in its coordinates
\* from every earlier route point.
C19_RoutePoints ==
    \A i \in 2..Len(drone.route) :
        LET p == drone.route[i]
            q == drone.route[i - 1]
        IN  ~p.null =>
                /\ ~q.null
                /\ Abs(p.x - q.x) <= ScanRange
                /\ Abs(p.y - q.y) <= ScanRange
                /\ \A j \in 1..Len(drone.obstacles) :
                       calculateDistance(p, drone.obstacles[j])
                           >= ObstacleClearance * ObstacleClearance
                /\ \A k \in 1..(i - 1) :
                       drone.route[k].x # p.x \/ drone.route[k].y # p.y

\* a route that went around: its second point is farther from the destination
\* than an obstructed point of the start's window, and a later point lies in
\* the window of an earlier one that is not its predecessor
C19_Witness ==
    /\ Len(drone.route) >= 4
    /\ Len(drone.obstacles) >= 2
    /\ ~drone.route[Len(drone.route)].null
    /\ \E x \in (-ScanRange)..ScanRange, y \in (-ScanRange)..ScanRange :
           /\ isObstructed(drone, Point(x, y))
           /\ calculateDistance(Point(x, y), drone.destination)
                  < calculateDistance(drone.route[2], drone.destination)
    /\ \E i \in 1..Len(drone.route) :
           /\ i + 2 <= Len(drone.route)
           /\ Abs(drone.route[i + 2].x - drone.route[i].x) <= ScanRange
           /\ Abs(drone.route[i + 2].y - drone.route[i].y) <= ScanRange

\* optimizeRoute has returned with the last route point within distance 10 of
\* the destination
ArrivedAtDestination ==
    /\ pc = "returned"
    /\ calculateDistance(drone.route[Len(drone.route)], drone.destination)
           <= ArrivalDistance * ArrivalDistance

NoNullEntry == \A i \in 1..Len(drone.route) : ~drone.route[i].null

\* C20: optimizeRoute eventually returns with the last route point within
\* distance 10 of the destination, and at no step does findNextPoint yield
\* null: no null entry is ever appended to the route.
C20_TerminatesWithoutNull ==
    /\ <>ArrivedAtDestination
    /\ []NoNullEntry

=============================================================================
